---- MODULE Spec2Model ----
(***************************************************************************)
(* Shopify webhook plugin: idempotent intake (views.py), the event ledger  *)
(* (models.py), the topic router (router.py), the Dramatiq worker and its  *)
(* retry policy (tasks.py) and the handlers the worker dispatches to       *)
(* (handlers/*.py, services/promotion_sync.py).                            *)
(***************************************************************************)
EXTENDS Integers, Sequences, FiniteSets, TLC

VARIABLES
    ledger,          \* WebhookEvent table: sequence of rows, primary key = index
    msgs,            \* Dramatiq messages sent by intake: sequence of messages
    topic_handlers,  \* router._topic_handlers: set of topics with a handler
    pc,              \* per request slot: position inside BaseShopifyWebhookView.post
    req,             \* per request slot: the request being served
    resp,            \* per request slot: HTTP status returned (0 = none yet)
    probe,           \* should_retry applied to a sample exception
    run,             \* the handler or builder call a worker is executing
    promo_api,       \* promotions API: sequence of committed batches
    calc             \* a call of a pure function of promotion_sync.py

vars ==
    <<ledger, msgs, topic_handlers, pc, req, resp, probe, run, promo_api, calc>>

----------------------------------------------------------------------------
(* Bounds of the exploration *)

MaxAttempts == 7          \* a message is started at most this many times
MaxProbeRetries == 2      \* retries_so_far values fed to should_retry

Slots == {1, 2}           \* concurrent HTTP requests
DeliveryIds == {"wh_1", "wh_2"}

----------------------------------------------------------------------------
(* router.py: topic sets and the handler registry *)

INVENTORY_TOPICS ==
    {"products/create", "products/update", "products/delete",
     "inventory_levels/update"}

PROMOTION_TOPICS ==
    {"price_rules/create", "price_rules/update", "price_rules/delete",
     "collections/update"}

ORDER_TOPICS == {"orders/create"}

\* topics registered by handlers/inventory.py and handlers/promotions.py
RegisteredTopics == INVENTORY_TOPICS \cup PROMOTION_TOPICS

\* router.get_handler: TRUE when a handler is registered for the topic
get_handler(handlers, topic) == topic \in handlers

----------------------------------------------------------------------------
(* views.py: the three topic-scoped endpoints *)

Endpoints == {"inventory", "promotions", "orders"}

allowed_topics(endpoint) ==
    CASE endpoint = "inventory"  -> INVENTORY_TOPICS
      [] endpoint = "promotions" -> PROMOTION_TOPICS
      [] endpoint = "orders"     -> ORDER_TOPICS

NoActor == "None"

task_actor(endpoint) ==
    CASE endpoint = "inventory"  -> "process_shopify_inventory_event"
      [] endpoint = "promotions" -> "process_shopify_promotion_event"
      [] endpoint = "orders"     -> NoActor

----------------------------------------------------------------------------
(* models.py: tenant configuration rows *)

WEBHOOK_SECRET == "secret-a"

ShopifyWebhookConfigs ==
    { [shopify_domain |-> "shop-a", is_active |-> TRUE,
       webhook_secret |-> WEBHOOK_SECRET],
      [shopify_domain |-> "shop-b", is_active |-> FALSE,
       webhook_secret |-> "secret-b"] }

\* ShopifyWebhookConfig.objects.get(shopify_domain=..., is_active=True)
ActiveConfigs(shop_domain) ==
    { c \in ShopifyWebhookConfigs :
        c.shopify_domain = shop_domain /\ c.is_active }

----------------------------------------------------------------------------
(* middleware.py: signature verification.  A header value is a string; the *)
(* model keeps what the comparison looks at: whether it is pure ASCII and  *)
(* which (secret, body) pair it is the base64 HMAC-SHA256 of, if any.      *)

HmacOf(body, secret) == [ascii |-> TRUE, key |-> secret, msg |-> body]
EmptyHeader == [ascii |-> TRUE, key |-> "", msg |-> "<none>"]
NonAsciiHeader == [ascii |-> FALSE, key |-> "", msg |-> "<none>"]

\* hmac.compare_digest on two str: TypeError unless both are ASCII
compare_digest(a, b) ==
    IF ~(a.ascii /\ b.ascii) THEN "TypeError"
    ELSE IF a = b THEN "True" ELSE "False"

verify_shopify_hmac(request_body, hmac_header, secret) ==
    compare_digest(HmacOf(request_body, secret), hmac_header)

----------------------------------------------------------------------------
(* Request bodies and json.loads *)

MISSING == "<missing>"

EmptyDoc ==
    [id |-> MISSING, target_type |-> MISSING, target_selection |-> MISSING,
     value_type |-> MISSING, value |-> MISSING, title |-> MISSING,
     starts_at |-> MISSING, inventory_item_id |-> MISSING,
     available |-> MISSING, entitled_product_ids |-> <<>>,
     entitled_variant_ids |-> <<>>, entitled_collection_ids |-> <<>>,
     prerequisite_collection_ids |-> <<>>]

PriceRule(sel, vtype) ==
    [EmptyDoc EXCEPT !.id = "507328175", !.target_type = "line_item",
                     !.target_selection = sel, !.value_type = vtype,
                     !.value = "-15.0", !.title = "SUMMER15",
                     !.starts_at = "2024-01-01T00:00:00+00:00",
                     !.entitled_product_ids = <<"p1">>]

\* an item-scoped rule with the given entitlement lists
Entitled(products, variants, collections) ==
    [PriceRule("entitled", "percentage") EXCEPT
        !.entitled_product_ids = products,
        !.entitled_variant_ids = variants,
        !.entitled_collection_ids = collections]

\* the well-formed JSON bodies of the model and the documents they parse to
JsonDocs ==
    [b \in {"inv_level", "inv_level_no_item", "rule_entitled",
            "rule_shipping", "rule_bad_value_type", "rule_no_starts_at",
            "order", "rule_bad_selection", "rule_basket",
            "rule_basket_no_title", "rule_basket_bad_value_type",
            "rule_products", "rule_variants", "rule_collections",
            "rule_products_collections", "rule_variants_collections",
            "rule_no_entitled", "collection_c1", "collection_no_id"} |->
       CASE b = "inv_level" ->
              [EmptyDoc EXCEPT !.inventory_item_id = "808950810",
                               !.available = "6"]
         [] b = "inv_level_no_item" -> [EmptyDoc EXCEPT !.available = "6"]
         [] b = "rule_entitled" -> PriceRule("entitled", "percentage")
         [] b = "rule_shipping" ->
              [PriceRule("all", "percentage") EXCEPT
                  !.target_type = "shipping_line"]
         [] b = "rule_bad_value_type" -> PriceRule("entitled", "bogus")
         [] b = "rule_no_starts_at" ->
              [PriceRule("entitled", "percentage") EXCEPT
                  !.starts_at = MISSING]
         [] b = "order" -> [EmptyDoc EXCEPT !.id = "450789469"]
         [] b = "collection_c1" -> [EmptyDoc EXCEPT !.id = "c1"]
         [] b = "collection_no_id" -> EmptyDoc
         [] b = "rule_bad_selection" -> PriceRule("prerequisite", "percentage")
         [] b = "rule_basket" -> PriceRule("all", "fixed_amount")
         [] b = "rule_basket_no_title" ->
              [PriceRule("all", "percentage") EXCEPT !.title = ""]
         [] b = "rule_basket_bad_value_type" -> PriceRule("all", "bogus")
         [] b = "rule_products" -> Entitled(<<"p1", "p2">>, <<>>, <<>>)
         [] b = "rule_variants" -> Entitled(<<>>, <<"v1", "v2">>, <<>>)
         [] b = "rule_collections" -> Entitled(<<>>, <<>>, <<"c1", "c2">>)
         [] b = "rule_products_collections" ->
              Entitled(<<"p2">>, <<>>, <<"c1">>)
         [] b = "rule_variants_collections" ->
              Entitled(<<>>, <<"v2">>, <<"c2">>)
         [] b = "rule_no_entitled" -> Entitled(<<>>, <<>>, <<>>) ]

NotJson == "not json"

JSONDecodeError == [EmptyDoc EXCEPT !.id = "<JSONDecodeError>"]

\* json.loads(raw_body): the parsed document, or JSONDecodeError raised
json_loads(raw_body) ==
    IF raw_body \in DOMAIN JsonDocs THEN JsonDocs[raw_body]
    ELSE JSONDecodeError

\* hashlib.sha256(raw_body).hexdigest()
sha256(raw_body) == <<"sha256", raw_body>>

----------------------------------------------------------------------------
(* HTTP requests *)

ModelTopics == {"inventory_levels/update", "price_rules/create", "orders/create"}

NoReq ==
    [endpoint |-> "", shop_domain |-> "", hmac_header |-> EmptyHeader,
     webhook_id |-> "", topic |-> "", body |-> ""]

\* every combination of headers an endpoint can be sent
Requests ==
    { [endpoint |-> e, shop_domain |-> d, hmac_header |-> h,
       webhook_id |-> w, topic |-> t, body |-> b] :
        e \in Endpoints, d \in {"", "shop-a", "shop-b"},
        h \in {HmacOf("inv_level", WEBHOOK_SECRET),
               HmacOf(NotJson, WEBHOOK_SECRET), EmptyHeader, NonAsciiHeader},
        w \in {""} \cup DeliveryIds, t \in ModelTopics,
        b \in {"inv_level", NotJson} }

\* a delivery as Shopify sends it: known shop, signed body, delivery id,
\* topic of the endpoint it is posted to
Delivery(e, t, b, w) ==
    [endpoint |-> e, shop_domain |-> "shop-a",
     hmac_header |-> HmacOf(b, WEBHOOK_SECRET),
     webhook_id |-> w, topic |-> t, body |-> b]

ValidDeliveries ==
    { Delivery("inventory", "inventory_levels/update", b, w) :
        b \in {"inv_level", "inv_level_no_item", NotJson}, w \in DeliveryIds }
    \cup
    { Delivery("promotions", "price_rules/create", b, w) :
        b \in {"rule_entitled", "rule_shipping", "rule_bad_value_type",
               "rule_no_starts_at"}, w \in DeliveryIds }
    \cup
    { Delivery("orders", "orders/create", "order", w) : w \in DeliveryIds }

----------------------------------------------------------------------------
(* models.py: the WebhookEvent table *)

RowsWith(led, webhook_id) ==
    { i \in DOMAIN led : led[i].webhook_id = webhook_id }

\* WebhookEvent.objects.filter(webhook_id=webhook_id).exists()
Exists(led, webhook_id) == RowsWith(led, webhook_id) # {}

\* the table without its uniqueness constraint
unique_webhook_id_absent(led, webhook_id) == TRUE

\* a constraint that only compares with the most recent row
unique_webhook_id_last_row(led, webhook_id) ==
    led = <<>> \/ led[Len(led)].webhook_id # webhook_id

\* Meta.constraints: UniqueConstraint(fields=["webhook_id"]); TRUE when the
\* table admits a new row with this webhook_id, FALSE is IntegrityError
unique_webhook_id(led, webhook_id) == RowsWith(led, webhook_id) = {}

\* a row created in a state other than received
NewEvent_processing(q) ==
    [webhook_id |-> q.webhook_id, topic |-> q.topic,
     shop_domain |-> q.shop_domain, status |-> "processing",
     payload_hash |-> sha256(q.body), error_message |-> ""]

NewEvent(q) ==
    [webhook_id |-> q.webhook_id, topic |-> q.topic,
     shop_domain |-> q.shop_domain, status |-> "received",
     payload_hash |-> sha256(q.body), error_message |-> ""]

----------------------------------------------------------------------------
(* views.py: BaseShopifyWebhookView.post *)

Proceed == 0

\* steps 1-6 of post: the response of the first failing check, or Proceed
post_checks(q, led) ==
    IF q.shop_domain = "" THEN 400
    ELSE IF ActiveConfigs(q.shop_domain) = {} THEN 404
    ELSE LET config == CHOOSE c \in ActiveConfigs(q.shop_domain) : TRUE
             verified == verify_shopify_hmac(q.body, q.hmac_header,
                                             config.webhook_secret)
         IN  IF verified = "TypeError" THEN 500
             ELSE IF verified = "False" THEN 401
             ELSE IF q.webhook_id = "" THEN 400
             ELSE IF allowed_topics(q.endpoint) # {}
                       /\ q.topic \notin allowed_topics(q.endpoint) THEN 400
             ELSE IF Exists(led, q.webhook_id) THEN 200
             ELSE Proceed

NewMessage(event_id, payload, actor) ==
    [event_id |-> event_id, payload |-> payload, actor |-> actor,
     retries |-> 0, state |-> "queued"]

\* a request arrives and runs steps 1-6 (lines 32-85)
PostCheck(r, q) ==
    /\ pc[r] = "idle"
    /\ req' = [req EXCEPT ![r] = q]
    /\ LET code == post_checks(q, ledger)
       IN  IF code = Proceed
           THEN /\ pc' = [pc EXCEPT ![r] = "create"]
                /\ resp' = [resp EXCEPT ![r] = 0]
           ELSE /\ pc' = [pc EXCEPT ![r] = "done"]
                /\ resp' = [resp EXCEPT ![r] = code]
    /\ UNCHANGED <<ledger, msgs, topic_handlers, probe, run,
                   promo_api, calc>>

\* steps 7-8 (lines 87-109): insert the row, parse the body, enqueue
PostCreate(r) ==
    /\ pc[r] = "create"
    /\ pc' = [pc EXCEPT ![r] = "done"]
    /\ LET q == req[r]
           payload == json_loads(q.body)
           actor == task_actor(q.endpoint)
       IN  IF ~unique_webhook_id(ledger, q.webhook_id)
           THEN \* IntegrityError raised by create()
                /\ resp' = [resp EXCEPT ![r] = 500]
                /\ UNCHANGED <<ledger, msgs>>
           ELSE /\ ledger' = Append(ledger, NewEvent(q))
                /\ IF actor = NoActor
                   THEN /\ resp' = [resp EXCEPT ![r] = 200]
                        /\ UNCHANGED msgs
                   ELSE IF payload = JSONDecodeError
                   THEN /\ resp' = [resp EXCEPT ![r] = 500]
                        /\ UNCHANGED msgs
                   ELSE /\ msgs' = Append(msgs,
                                     NewMessage(Len(ledger) + 1, payload, actor))
                        /\ resp' = [resp EXCEPT ![r] = 200]
    /\ UNCHANGED <<req, topic_handlers, probe, run,
                   promo_api, calc>>

\* the response has been sent; the worker thread takes the next request
Return(r) ==
    /\ pc[r] = "done"
    /\ pc' = [pc EXCEPT ![r] = "idle"]
    /\ req' = [req EXCEPT ![r] = NoReq]
    /\ resp' = [resp EXCEPT ![r] = 0]
    /\ UNCHANGED <<ledger, msgs, topic_handlers, probe, run,
                   promo_api, calc>>

----------------------------------------------------------------------------
(* Exceptions.  cls is the Python class, response the value of the         *)
(* exception's response attribute: NoAttr when it has none, NoneResp when  *)
(* it is None, else the HTTP status of the response it carries.            *)

NoAttr == -1
NoneResp == 0

Exc(cls, response, msg) == [cls |-> cls, response |-> response, msg |-> msg]

\* the classes each exception class is an instance of (requests.exceptions
\* derives RequestException from IOError, which is OSError)
Ancestors(cls) ==
    CASE cls = "requests.ConnectionError" ->
           {"requests.ConnectionError", "requests.RequestException", "OSError"}
      [] cls = "requests.Timeout" ->
           {"requests.Timeout", "requests.RequestException", "OSError"}
      [] cls = "requests.HTTPError" ->
           {"requests.HTTPError", "requests.RequestException", "OSError"}
      [] cls = "ConnectionResetError" ->
           {"ConnectionResetError", "builtins.ConnectionError", "OSError"}
      [] cls = "TimeoutError" -> {"TimeoutError", "OSError"}
      [] cls = "FileNotFoundError" -> {"FileNotFoundError", "OSError"}
      [] cls = "ValueError" -> {"ValueError"}
      [] cls = "KeyError" -> {"KeyError", "LookupError"}
      [] cls = "TypeError" -> {"TypeError"}
      [] cls = "Exception" -> {}
      [] cls = "ApiError" -> {"ApiError"}

isinstance(exception, classes) == Ancestors(exception.cls) \cap classes # {}

----------------------------------------------------------------------------
(* tasks.py: retry classification *)

\* a classifier that calls every exception transient
should_retry_always(retries_so_far, exception) == TRUE

should_retry(retries_so_far, exception) ==
    IF isinstance(exception,
                  {"requests.ConnectionError", "requests.Timeout", "OSError"})
    THEN TRUE
    ELSE IF exception.response # NoAttr /\ exception.response # NoneResp
              /\ (exception.response = 429
                    \/ (500 <= exception.response /\ exception.response < 600))
    THEN TRUE
    ELSE FALSE

\* @dramatiq.actor(max_retries=5, retry_when=should_retry)
max_retries == 5
retry_when_set == TRUE

\* dramatiq's Retries middleware after the actor raised: a retry_when
\* predicate, when the actor declares one, decides alone; max_retries is
\* consulted only when no predicate is declared
will_retry(retries, exception) ==
    IF retry_when_set THEN should_retry(retries, exception)
    ELSE retries < max_retries

----------------------------------------------------------------------------
(* What the Shopify Admin API answers to the lookup a handler issues *)

Response(status) == [kind |-> "response", status |-> status]
TimedOut == [kind |-> "Timeout", status |-> 0]

UpstreamReplies == {Response(200), Response(404), Response(503), TimedOut}

NoException == Exc("<none>", NoAttr, "")

\* requests.get(..., timeout=...) followed by response.raise_for_status()
get_and_raise_for_status(reply) ==
    IF reply.kind = "Timeout"
    THEN Exc("requests.Timeout", NoneResp, "Read timed out")
    ELSE IF 400 <= reply.status /\ reply.status < 500
    THEN Exc("requests.HTTPError", reply.status, "Client Error")
    ELSE IF 500 <= reply.status /\ reply.status < 600
    THEN Exc("requests.HTTPError", reply.status, "Server Error")
    ELSE NoException

----------------------------------------------------------------------------
(* handlers/inventory.py *)

handle_inventory_level_update(payload, reply) ==
    IF payload.inventory_item_id = MISSING
    THEN Exc("ValueError", NoAttr, "Missing inventory_item_id")
    ELSE IF payload.available = MISSING THEN NoException
    ELSE \* _resolve_inventory_item_to_barcode on a cache miss, then the
         \* stock update is posted to the inventory service
         get_and_raise_for_status(reply)

----------------------------------------------------------------------------
(* services/promotion_sync.py and handlers/promotions.py *)

NoFamily == "None"

\* a classification that does not look at target_type
determine_family_any_target(price_rule) ==
    IF price_rule.target_selection = "all" THEN "b"
    ELSE IF price_rule.target_selection = "entitled" THEN "e"
    ELSE NoFamily

determine_family(price_rule) ==
    IF price_rule.target_type # "line_item" THEN NoFamily
    ELSE IF price_rule.target_selection = "all" THEN "b"
    ELSE IF price_rule.target_selection = "entitled" THEN "e"
    ELSE NoFamily

NoResolver == "None"

\* resolve_entitled_skus: the resolver called and the list it is given
entitled_ids(price_rule) ==
    IF price_rule.entitled_product_ids # <<>>
    THEN [resolver |-> "get_products_sku",
          ids |-> price_rule.entitled_product_ids]
    ELSE IF price_rule.entitled_variant_ids # <<>>
    THEN [resolver |-> "get_sku_from_variants",
          ids |-> price_rule.entitled_variant_ids]
    ELSE IF price_rule.entitled_collection_ids # <<>>
    THEN [resolver |-> "get_products_from_collections",
          ids |-> price_rule.entitled_collection_ids]
    ELSE [resolver |-> NoResolver, ids |-> <<>>]

NoEntitledItems == Exc("ValueError", NoAttr, "Price rule has no entitled items")

\* a resolver that lets the exception of the request through
FetchError_unwrapped == Exc("requests.Timeout", NoneResp, "Read timed out")

\* what a resolver raises when a request fails: Exception(error)
FetchError == Exc("Exception", NoAttr, "error while fetching skus")

\* resolution when every request gets the same reply: the three resolvers
\* wrap every exception of a request in Exception(error)
resolve_entitled_skus(price_rule, reply) ==
    IF entitled_ids(price_rule).resolver = NoResolver THEN NoEntitledItems
    ELSE IF reply.kind = "Timeout" THEN FetchError
    ELSE NoException

\* a builder that falls back to a default for an unknown value type
value_type_check_default(price_rule) == NoException

value_type_check(price_rule) ==
    IF price_rule.value_type \in {"percentage", "fixed_amount"}
    THEN NoException
    ELSE Exc("ValueError", NoAttr, "Unknown discount value_type")

\* build_easy_promotion up to the resolution of the entitled SKUs
build_easy_promotion_fields(price_rule) ==
    IF price_rule.id = MISSING THEN Exc("KeyError", NoAttr, "'id'")
    ELSE IF price_rule.starts_at = MISSING
    THEN Exc("KeyError", NoAttr, "'starts_at'")
    ELSE IF price_rule.value = MISSING THEN Exc("KeyError", NoAttr, "'value'")
    ELSE value_type_check(price_rule)

build_easy_promotion(price_rule, reply) ==
    IF build_easy_promotion_fields(price_rule) # NoException
    THEN build_easy_promotion_fields(price_rule)
    ELSE resolve_entitled_skus(price_rule, reply)

build_basket_threshold_promotion(price_rule) ==
    IF price_rule.id = MISSING THEN Exc("KeyError", NoAttr, "'id'")
    ELSE IF price_rule.starts_at = MISSING
    THEN Exc("KeyError", NoAttr, "'starts_at'")
    ELSE IF price_rule.title \in {MISSING, ""}
    THEN Exc("ValueError", NoAttr, "Basket Threshold promotion requires a title")
    ELSE IF price_rule.value = MISSING THEN Exc("KeyError", NoAttr, "'value'")
    ELSE value_type_check(price_rule)

\* _build_promotion_for_price_rule, then create and commit when a promotion
\* was built; an unmappable rule returns before any promotions-API call
handle_price_rule_create(payload, reply) ==
    LET family == determine_family(payload)
    IN  IF family = NoFamily THEN NoException
        ELSE IF family = "e" THEN build_easy_promotion(payload, reply)
        ELSE build_basket_threshold_promotion(payload)

\* the handler registered for the topic, run on the payload: the exception
\* it raises, or NoException when it returns
run_handler(topic, payload, reply) ==
    CASE topic = "inventory_levels/update" ->
           handle_inventory_level_update(payload, reply)
      [] topic = "price_rules/create" ->
           handle_price_rule_create(payload, reply)
      [] OTHER -> NoException

----------------------------------------------------------------------------
(* apps.py: ShopifyWebhooksConfig.ready imports the handler modules, which *)
(* register their topics                                                   *)

Ready ==
    /\ topic_handlers = {}
    /\ topic_handlers' = RegisteredTopics
    /\ UNCHANGED <<ledger, msgs, pc, req, resp, probe, run,
                   promo_api, calc>>

----------------------------------------------------------------------------
(* tasks.py: _process_event, run by a Dramatiq worker for message i *)

\* lines 37-44: load the event and mark it processing
StartProcessing(i) ==
    /\ msgs[i].state = "queued"
    /\ msgs[i].retries < MaxAttempts
    /\ msgs' = [msgs EXCEPT ![i].state = "running"]
    /\ ledger' = [ledger EXCEPT ![msgs[i].event_id].status = "processing"]
    /\ UNCHANGED <<topic_handlers, pc, req, resp, probe, run,
                   promo_api, calc>>

\* lines 49-87 once the handler, if one was found, has returned or raised
\* exc: record the outcome, re-raise; then the Retries middleware
\* re-enqueues the message or fails it
RecordOutcome(i, found, exc) ==
    /\ LET m == msgs[i]
       IN  IF ~found
           THEN /\ ledger' = [ledger EXCEPT
                                ![m.event_id].status = "failed",
                                ![m.event_id].error_message = "No handler for topic"]
                /\ msgs' = [msgs EXCEPT ![i].state = "done"]
           ELSE IF exc = NoException
           THEN /\ ledger' = [ledger EXCEPT ![m.event_id].status = "success"]
                /\ msgs' = [msgs EXCEPT ![i].state = "done"]
           ELSE /\ ledger' = [ledger EXCEPT
                                ![m.event_id].status = "failed",
                                ![m.event_id].error_message = exc.msg]
                /\ IF will_retry(m.retries, exc)
                   THEN msgs' = [msgs EXCEPT ![i].state = "queued",
                                             ![i].retries = m.retries + 1]
                   ELSE msgs' = [msgs EXCEPT ![i].state = "failed"]
    /\ UNCHANGED <<topic_handlers, pc, req, resp, probe, calc>>

\* the handler runs with every request it issues getting the same reply
FinishProcessing(i, reply) ==
    /\ msgs[i].state = "running"
    /\ LET event == ledger[msgs[i].event_id]
       IN  RecordOutcome(i, get_handler(topic_handlers, event.topic),
                         run_handler(event.topic, msgs[i].payload, reply))
    /\ UNCHANGED <<run, promo_api>>

----------------------------------------------------------------------------
(* The Shopify Admin API catalog the SKU resolvers query, and the replies  *)
(* a request can get                                                       *)

NullBarcode == "<null>"       \* a variant whose barcode is JSON null

\* GET products/{id}.json: the barcodes of the product's variants
ProductVariants ==
    [p \in {"p1", "p2"} |->
       IF p = "p1" THEN <<"sku1">> ELSE <<NullBarcode, "sku2">>]

\* GET variants/{id}.json: the variant's barcode
VariantBarcode ==
    [v \in {"v1", "v2"} |-> IF v = "v1" THEN "sku3" ELSE NullBarcode]

\* GET collections/{id}/products.json: the ids of the collection's products
CollectionProducts ==
    [c \in {"c1", "c2"} |-> IF c = "c1" THEN <<"p1", "p2">> ELSE <<"p1">>]

ResolverReplies == {Response(200), Response(429), Response(404), TimedOut}

\* Python truthiness of a barcode: None and "" are falsy
falsy(x) == x \in {NullBarcode, ""}

\* str(item_sku)
str(x) == IF x = NullBarcode THEN "None" ELSE x

\* extract_id: the last "/"-separated part of a GID, held as a sequence
extract_id(gid_string) == gid_string[Len(gid_string)]

Gid(kind, id) == <<"gid:", "", "shopify", kind, id>>

\* ids.insert(0, id) put at the end of the queue instead
requeue_at_back(ids, id) == Append(ids, id)

\* the id put back twice
requeue_twice(ids, id) == <<id, id>> \o ids

\* ids.insert(0, id) on a 429 response
requeue(ids, id) == <<id>> \o ids

\* lines 203-207: the barcodes a 200 product response contributes
product_skus(product_id) ==
    SelectSeq(ProductVariants[product_id], LAMBDA barcode : ~falsy(barcode))

\* lines 244-246: what a 200 variant response contributes
variant_skus(variant_id) == <<VariantBarcode[variant_id]>>

\* the SKUs of the fan-out appended last to first
RECURSIVE str_all_reversed(_)
str_all_reversed(items) ==
    IF items = <<>> THEN <<>>
    ELSE str_all_reversed(Tail(items)) \o <<str(Head(items))>>

\* lines 164-167: the SKUs of the fan-out appended as strings
RECURSIVE str_all(_)
str_all(items) ==
    IF items = <<>> THEN <<>>
    ELSE <<str(Head(items))>> \o str_all(Tail(items))

----------------------------------------------------------------------------
(* services/promotion_sync.py: source selection and Promotion objects *)

\* a GraphQL customerGets.items / customerBuys.items block: edge node GIDs
Items(collections, products, variants) ==
    [collections |-> collections, products |-> products,
     productVariants |-> variants]

RECURSIVE extract_ids(_)
extract_ids(edges) ==
    IF edges = <<>> THEN <<>>
    ELSE <<extract_id(Head(edges))>> \o extract_ids(Tail(edges))

\* resolve_skus_from_edges: the resolver called and the list it is given
resolve_skus_from_edges(customer_data_items) ==
    IF customer_data_items.collections # <<>>
    THEN [resolver |-> "get_products_from_collections",
          ids |-> extract_ids(customer_data_items.collections)]
    ELSE IF customer_data_items.products # <<>>
    THEN [resolver |-> "get_products_sku",
          ids |-> extract_ids(customer_data_items.products)]
    ELSE IF customer_data_items.productVariants # <<>>
    THEN [resolver |-> "get_sku_from_variants",
          ids |-> extract_ids(customer_data_items.productVariants)]
    ELSE [resolver |-> NoResolver, ids |-> <<>>]

ItemsNotFound ==
    Exc("Exception", NoAttr, "Promo: entitled/requisite items not found")

NoPromo == [promo_id |-> "", family |-> NoFamily, title |-> "", groups |-> <<>>]

Group(name, nodes) == [name |-> name, nodes |-> nodes]

\* the `if not sku: continue` loop that turns SKUs into item nodes
group_nodes(skus) == SelectSeq(skus, LAMBDA sku : ~falsy(sku))

build_promo_groups(promo_id, resolved_skus) ==
    <<Group(promo_id, group_nodes(resolved_skus))>>

title_of(price_rule) ==
    IF price_rule.title = MISSING THEN "" ELSE price_rule.title

\* build_easy_promotion from the resolution on: the Promotion returned
easy_promotion(price_rule, resolved_skus) ==
    [promo_id |-> price_rule.id, family |-> "e",
     title |-> title_of(price_rule),
     groups |-> build_promo_groups(price_rule.id, resolved_skus)]

\* the Promotion build_basket_threshold_promotion returns
basket_threshold_promotion(price_rule) ==
    [promo_id |-> price_rule.id, family |-> "b",
     title |-> title_of(price_rule),
     groups |-> <<Group(price_rule.id, <<"all">>)>>]

\* AutomaticCodesDiscountType
DiscountTypenames ==
    {"DiscountPercentage", "DiscountAmount", "DiscountQuantity",
     "DiscountOnQuantity"}

NoDiscount ==
    [id |-> "", typename |-> "", customerGets |-> Items(<<>>, <<>>, <<>>),
     customerBuys |-> Items(<<>>, <<>>, <<>>)]

\* build_bxgy_promotion up to the resolution of its two groups
build_bxgy_promotion_fields(automatic_discount) ==
    IF automatic_discount.typename \in
         {"DiscountOnQuantity", "DiscountPercentage", "DiscountAmount"}
    THEN NoException
    ELSE Exc("ValueError", NoAttr, "BXGY promotion: unknown discount type")

\* the Promotion build_bxgy_promotion returns: g1 requisite, g2 target
bxgy_promotion(automatic_discount, requisite_group_skus, target_group_skus) ==
    [promo_id |-> automatic_discount.id, family |-> "r", title |-> "",
     groups |-> <<Group("g1", group_nodes(requisite_group_skus)),
                  Group("g2", group_nodes(target_group_skus))>>]

----------------------------------------------------------------------------
(* handlers/promotions.py: the price-rule handlers *)

CreateOp(promo) == [op |-> "create", promo_id |-> promo.promo_id, promo |-> promo]
DeleteOp(promo_id) == [op |-> "delete", promo_id |-> promo_id, promo |-> NoPromo]

\* batch_op.create(promo)
handle_price_rule_create_batch(price_rule, promo) == <<CreateOp(promo)>>

\* the replacement queued without the delete
handle_price_rule_update_create_only(price_rule, promo) == <<CreateOp(promo)>>

\* batch_op.delete(delete_promo, store_id); batch_op.create(promo)
handle_price_rule_update_batch(price_rule, promo) ==
    <<DeleteOp(price_rule.id), CreateOp(promo)>>

BuilderTopics == {"price_rules/create", "price_rules/update"}

handler_of(topic) ==
    IF topic = "price_rules/create" THEN "handle_price_rule_create"
    ELSE "handle_price_rule_update"

\* an unmappable rule built as a basket-threshold promotion
build_promotion_for_price_rule_no_skip(price_rule) ==
    [kind |-> "promo", exc |-> NoException,
     promo |-> basket_threshold_promotion(price_rule),
     src |-> [resolver |-> NoResolver, ids |-> <<>>]]

\* _build_promotion_for_price_rule up to the first request it issues:
\* "skip" returns None, "raise" raises exc, "promo" returns promo,
\* "resolve" goes on to resolve the SKUs of src
build_promotion_for_price_rule(price_rule) ==
    LET family == determine_family(price_rule)
        none == [kind |-> "skip", exc |-> NoException, promo |-> NoPromo,
                 src |-> [resolver |-> NoResolver, ids |-> <<>>]]
    IN  IF family = NoFamily THEN none
        ELSE IF family = "e"
        THEN IF build_easy_promotion_fields(price_rule) # NoException
             THEN [none EXCEPT !.kind = "raise",
                               !.exc = build_easy_promotion_fields(price_rule)]
             ELSE IF entitled_ids(price_rule).resolver = NoResolver
             THEN [none EXCEPT !.kind = "raise", !.exc = NoEntitledItems]
             ELSE [none EXCEPT !.kind = "resolve",
                               !.src = entitled_ids(price_rule)]
        ELSE IF build_basket_threshold_promotion(price_rule) # NoException
             THEN [none EXCEPT
                     !.kind = "raise",
                     !.exc = build_basket_threshold_promotion(price_rule)]
             ELSE [none EXCEPT
                     !.kind = "promo",
                     !.promo = basket_threshold_promotion(price_rule)]

----------------------------------------------------------------------------
(* One execution of a price-rule handler by a worker, or of                *)
(* build_bxgy_promotion by a caller of the service module, request by      *)
(* request                                                                 *)

Library == -1      \* owner of a call that no message started

NoRun ==
    [owner |-> 0, caller |-> "", found |-> TRUE, phase |-> "idle",
     price_rule |-> EmptyDoc, discount |-> NoDiscount, stage |-> "",
     resolver |-> NoResolver, queue |-> <<>>, ident |-> "", response |-> 0,
     skus |-> <<>>, nested |-> FALSE, product_ids |-> <<>>,
     product_sku |-> <<>>, answers |-> <<>>, target_group_skus |-> <<>>,
     exc |-> NoException, promo |-> NoPromo, batch |-> <<>>,
     collection |-> "", listing |-> <<>>, rules |-> <<>>]

\* the call is over: it raised exc, or returned after building promo and
\* committing batch; the locals of the resolvers are gone
Done(r, exc, promo, batch) ==
    [NoRun EXCEPT !.owner = r.owner, !.caller = r.caller, !.found = r.found,
                  !.price_rule = r.price_rule, !.discount = r.discount,
                  !.collection = r.collection, !.listing = r.listing,
                  !.phase = "done", !.exc = exc,
                  !.promo = promo, !.batch = batch]

\* handle_collection_update: `collection_id in entitled or collection_id
\* in prerequisite`
references(pr, collection_id) ==
    \/ \E k \in DOMAIN pr.entitled_collection_ids :
          pr.entitled_collection_ids[k] = collection_id
    \/ \E k \in DOMAIN pr.prerequisite_collection_ids :
          pr.prerequisite_collection_ids[k] = collection_id

\* a filter that looks at the entitled collections only
affected_entitled_only(price_rules, collection_id) ==
    SelectSeq(price_rules,
              LAMBDA pr : \E k \in DOMAIN pr.entitled_collection_ids :
                             pr.entitled_collection_ids[k] = collection_id)

\* the price rules that reference the changed collection, in list order
affected(price_rules, collection_id) ==
    SelectSeq(price_rules, LAMBDA pr : references(pr, collection_id))

\* batch_op.delete(delete_promo, store_id); batch_op.create(promo)
handle_collection_update_ops(price_rule, promo) ==
    <<DeleteOp(price_rule.id), CreateOp(promo)>>

\* the loop over the affected rules has rebuilt r.price_rule as promo and
\* goes on with the rules that are left
Rebuilt(r, promo) ==
    [Done(r, NoException, NoPromo,
          r.batch \o handle_collection_update_ops(r.price_rule, promo))
       EXCEPT !.phase = "rules", !.rules = r.rules]

\* a resolver is entered with its list of ids
StartResolver(r, stage, src) ==
    [r EXCEPT !.phase = "loop", !.stage = stage, !.resolver = src.resolver,
              !.queue = src.ids, !.ident = "", !.response = 0, !.skus = <<>>,
              !.nested = FALSE, !.product_ids = <<>>, !.product_sku = <<>>,
              !.answers = <<>>]

\* the handler has its promotion: queue the operations on a batch and call
\* batch_op.commit()
Publish(r, promo) ==
    LET batch == IF r.caller = "handle_price_rule_create"
                 THEN handle_price_rule_create_batch(r.price_rule, promo)
                 ELSE handle_price_rule_update_batch(r.price_rule, promo)
    IN  /\ run' = [Done(r, NoException, promo, batch) EXCEPT !.phase = "commit"]
        /\ UNCHANGED promo_api

\* what a commit sent to the promotions service can come to: the batch is
\* applied and acknowledged; the service is not reached; the batch is
\* applied but the acknowledgement does not arrive in time
CommitOutcomes == {"committed", "refused", "lost"}

CommitError(outcome) ==
    IF outcome = "refused"
    THEN Exc("requests.ConnectionError", NoneResp, "Connection refused")
    ELSE Exc("requests.Timeout", NoneResp, "Read timed out")

\* batch_op.commit() returns or raises; nothing in the handler catches
Commit(outcome) ==
    /\ run.phase = "commit"
    /\ promo_api' = IF outcome \in {"committed", "lost"}
                    THEN Append(promo_api, run.batch) ELSE promo_api
    /\ run' = IF outcome = "committed" THEN [run EXCEPT !.phase = "done"]
              ELSE [run EXCEPT !.phase = "done", !.exc = CommitError(outcome)]
    /\ UNCHANGED <<ledger, msgs, topic_handlers, pc, req, resp, probe, calc>>

\* lines 49-56 of _process_event and the handler up to its first request
BeginHandler(i) ==
    /\ msgs[i].state = "running"
    /\ run = NoRun
    /\ ledger[msgs[i].event_id].topic \in BuilderTopics
    /\ LET topic == ledger[msgs[i].event_id].topic
           r == [NoRun EXCEPT !.owner = i, !.caller = handler_of(topic),
                              !.price_rule = msgs[i].payload]
           b == build_promotion_for_price_rule(msgs[i].payload)
       IN  IF ~get_handler(topic_handlers, topic)
           THEN /\ run' = Done([r EXCEPT !.found = FALSE], NoException,
                               NoPromo, <<>>)
                /\ UNCHANGED promo_api
           ELSE IF b.kind = "promo" THEN Publish(r, b.promo)
           ELSE IF b.kind = "resolve"
           THEN /\ run' = StartResolver(r, "entitled", b.src)
                /\ UNCHANGED promo_api
           ELSE /\ run' = Done(r, b.exc, NoPromo, <<>>)
                /\ UNCHANGED promo_api
    /\ UNCHANGED <<ledger, msgs, topic_handlers, pc, req, resp, probe, calc>>

MissingCollectionId ==
    Exc("ValueError", NoAttr, "Missing collection ID in collections/update payload")

\* lines 49-56 of _process_event and handle_collection_update up to its
\* loop over the affected rules: the price rules are listed page by page,
\* each page with raise_for_status, and filtered
BeginCollectionUpdate(i, price_rules, reply) ==
    /\ msgs[i].state = "running"
    /\ run = NoRun
    /\ ledger[msgs[i].event_id].topic = "collections/update"
    /\ LET collection_id == msgs[i].payload.id
           r == [NoRun EXCEPT !.owner = i,
                              !.caller = "handle_collection_update",
                              !.collection = collection_id]
       IN  run' =
             IF ~get_handler(topic_handlers, "collections/update")
             THEN Done([r EXCEPT !.found = FALSE], NoException, NoPromo, <<>>)
             ELSE IF collection_id = MISSING
             THEN Done(r, MissingCollectionId, NoPromo, <<>>)
             ELSE IF get_and_raise_for_status(reply) # NoException
             THEN Done(r, get_and_raise_for_status(reply), NoPromo, <<>>)
             ELSE IF affected(price_rules, collection_id) = <<>>
             THEN Done([r EXCEPT !.listing = price_rules], NoException,
                       NoPromo, <<>>)
             ELSE [r EXCEPT !.phase = "rules", !.listing = price_rules,
                            !.rules = affected(price_rules, collection_id)]
    /\ UNCHANGED <<ledger, msgs, topic_handlers, pc, req, resp, probe,
                   promo_api, calc>>

\* `for price_rule in affected:` one rule, or past the loop
\* `if rebuilt > 0: batch_op.commit()`
RebuildNext ==
    /\ run.phase = "rules"
    /\ IF run.rules = <<>>
       THEN run' = IF run.batch # <<>> THEN [run EXCEPT !.phase = "commit"]
                   ELSE Done(run, NoException, NoPromo, <<>>)
       ELSE LET r == [run EXCEPT !.price_rule = Head(run.rules),
                                 !.rules = Tail(run.rules)]
                b == build_promotion_for_price_rule(Head(run.rules))
            IN  run' = IF b.kind = "skip" THEN r
                       ELSE IF b.kind = "raise"
                       THEN Done(r, b.exc, NoPromo, <<>>)
                       ELSE IF b.kind = "promo" THEN Rebuilt(r, b.promo)
                       ELSE StartResolver(r, "entitled", b.src)
    /\ UNCHANGED <<ledger, msgs, topic_handlers, pc, req, resp, probe,
                   promo_api, calc>>

\* build_easy_promotion(price_rule, config) is called
CallBuildEasy(price_rule) ==
    /\ run = NoRun
    /\ LET r == [NoRun EXCEPT !.owner = Library,
                              !.caller = "build_easy_promotion",
                              !.price_rule = price_rule]
           fields == build_easy_promotion_fields(price_rule)
           src == entitled_ids(price_rule)
       IN  run' = IF fields # NoException THEN Done(r, fields, NoPromo, <<>>)
                  ELSE IF src.resolver = NoResolver
                  THEN Done(r, NoEntitledItems, NoPromo, <<>>)
                  ELSE StartResolver(r, "entitled", src)
    /\ UNCHANGED <<ledger, msgs, topic_handlers, pc, req, resp, probe,
                   promo_api, calc>>

\* build_bxgy_promotion(automatic_discount, config) is called
CallBuildBxgy(automatic_discount) ==
    /\ run = NoRun
    /\ LET r == [NoRun EXCEPT !.owner = Library,
                              !.caller = "build_bxgy_promotion",
                              !.discount = automatic_discount]
           fields == build_bxgy_promotion_fields(automatic_discount)
           src == resolve_skus_from_edges(automatic_discount.customerGets)
       IN  run' = IF fields # NoException THEN Done(r, fields, NoPromo, <<>>)
                  ELSE IF src.resolver = NoResolver
                  THEN Done(r, ItemsNotFound, NoPromo, <<>>)
                  ELSE StartResolver(r, "customerGets", src)
    /\ UNCHANGED <<ledger, msgs, topic_handlers, pc, req, resp, probe,
                   promo_api, calc>>

\* the active resolver returned run.skus, or raised exc, to its caller
ResolverExit(exc) ==
    IF exc # NoException
    THEN /\ run' = Done(run, exc, NoPromo, <<>>)
         /\ UNCHANGED promo_api
    ELSE IF run.caller = "build_bxgy_promotion"
    THEN /\ UNCHANGED promo_api
         /\ IF run.stage = "customerGets"
            THEN LET src == resolve_skus_from_edges(run.discount.customerBuys)
                 IN  run' = IF src.resolver = NoResolver
                            THEN Done(run, ItemsNotFound, NoPromo, <<>>)
                            ELSE [StartResolver(run, "customerBuys", src)
                                    EXCEPT !.target_group_skus = run.skus]
            ELSE run' = Done(run, NoException,
                             bxgy_promotion(run.discount, run.skus,
                                            run.target_group_skus), <<>>)
    ELSE IF run.caller = "build_easy_promotion"
    THEN /\ run' = Done(run, NoException,
                        easy_promotion(run.price_rule, run.skus), <<>>)
         /\ UNCHANGED promo_api
    ELSE IF run.caller = "handle_collection_update"
    THEN /\ run' = Rebuilt(run, easy_promotion(run.price_rule, run.skus))
         /\ UNCHANGED promo_api
    ELSE Publish(run, easy_promotion(run.price_rule, run.skus))

\* the endpoint the request in flight was sent to
Endpoint(r) ==
    IF r.nested \/ r.resolver = "get_products_sku" THEN "products"
    ELSE IF r.resolver = "get_sku_from_variants" THEN "variants"
    ELSE "collections"

\* every error status taken for a rate limit
retry_status_any_error(status) == status # 200

\* `if response.status_code == 429`
retry_status(status) == status = 429

\* the body of the try block for a response with this status code
AfterResponse(r, status) ==
    LET r1 == [r EXCEPT !.phase = "loop", !.response = status]
        r2 == [r1 EXCEPT !.answers = Append(@, <<Endpoint(r), r.ident, status>>)]
    IN  IF retry_status(status)
        THEN IF r.nested
             THEN [r1 EXCEPT !.product_ids = requeue(@, r.ident)]
             ELSE [r1 EXCEPT !.queue = requeue(@, r.ident)]
        ELSE IF status # 200 THEN r2
        ELSE IF r.nested
        THEN [r2 EXCEPT !.product_sku = @ \o product_skus(r.ident)]
        ELSE IF r.resolver = "get_products_sku"
        THEN [r2 EXCEPT !.skus = @ \o product_skus(r.ident)]
        ELSE IF r.resolver = "get_sku_from_variants"
        THEN [r2 EXCEPT !.skus = @ \o variant_skus(r.ident)]
        ELSE \* the collection's products are listed and get_products_sku
             \* is entered on the list
             [r2 EXCEPT !.product_ids = @ \o CollectionProducts[r.ident],
                        !.product_sku = <<>>, !.nested = TRUE]

\* `while ids:` of the active loop: leave it, or pop the next id and send
\* the request for it
ResolverLoop ==
    /\ run.phase = "loop"
    /\ IF run.nested
       THEN /\ UNCHANGED promo_api
            /\ IF run.product_ids = <<>>
               THEN run' = [run EXCEPT !.nested = FALSE,
                                       !.skus = @ \o str_all(run.product_sku),
                                       !.product_sku = <<>>]
               ELSE run' = [run EXCEPT !.phase = "await",
                                       !.ident = Head(run.product_ids),
                                       !.product_ids = Tail(@)]
       ELSE IF run.queue = <<>>
       THEN ResolverExit(NoException)
       ELSE /\ UNCHANGED promo_api
            /\ run' = [run EXCEPT !.phase = "await",
                                  !.ident = Head(run.queue),
                                  !.queue = Tail(@)]
    /\ UNCHANGED <<ledger, msgs, topic_handlers, pc, req, resp, probe, calc>>

\* requests.get returns a response or raises; an exception is wrapped in
\* Exception(error) and raised to the caller
ResolverReply(reply) ==
    /\ run.phase = "await"
    /\ IF reply.kind = "Timeout"
       THEN ResolverExit(FetchError)
       ELSE /\ run' = AfterResponse(run, reply.status)
            /\ UNCHANGED promo_api
    /\ UNCHANGED <<ledger, msgs, topic_handlers, pc, req, resp, probe, calc>>

\* the builder has returned or raised to its caller
CallReturn ==
    /\ run.phase = "done"
    /\ run.owner = Library
    /\ run' = NoRun
    /\ UNCHANGED <<ledger, msgs, topic_handlers, pc, req, resp, probe,
                   promo_api, calc>>

\* lines 57-87 of _process_event for the handler that has finished
EndHandler(i) ==
    /\ run.phase = "done"
    /\ run.owner = i
    /\ RecordOutcome(i, run.found, run.exc)
    /\ run' = NoRun
    /\ UNCHANGED promo_api

----------------------------------------------------------------------------
(* should_retry on sample exceptions *)

ExceptionClasses ==
    {"requests.ConnectionError", "requests.Timeout", "requests.HTTPError",
     "ConnectionResetError", "TimeoutError", "FileNotFoundError",
     "ValueError", "KeyError", "TypeError", "Exception", "ApiError"}

SampleStatuses == {200, 400, 404, 429, 499, 500, 503, 599, 600}

\* requests exceptions carry a response attribute (None unless raised by
\* raise_for_status), builtin exceptions carry none; ApiError stands for
\* a client library's error that may carry any response
SampleExceptions ==
    { Exc(c, NoneResp, "") :
        c \in {"requests.ConnectionError", "requests.Timeout"} }
    \cup { Exc("requests.HTTPError", st, "") :
             st \in { x \in SampleStatuses : 400 <= x /\ x < 600 } }
    \cup { Exc(c, NoAttr, "") :
             c \in ExceptionClasses \ {"requests.ConnectionError",
                    "requests.Timeout", "requests.HTTPError", "ApiError"} }
    \cup { Exc("ApiError", st, "") :
             st \in SampleStatuses \cup {NoAttr, NoneResp} }

NoProbe == [retries |-> 0, exc |-> NoException, result |-> "unset"]

Classify ==
    /\ probe.result = "unset"
    /\ probe.exc # NoException
    /\ probe' = [probe EXCEPT !.result =
                    IF should_retry(probe.retries, probe.exc)
                    THEN "True" ELSE "False"]
    /\ UNCHANGED <<ledger, msgs, topic_handlers, pc, req, resp, run, promo_api,
                   calc>>

----------------------------------------------------------------------------
(* services/promotion_sync.py: compute_evaluate_priority and               *)
(* determine_family called on their own.  A discount value is a decimal    *)
(* with two places, as get_rounded_value(..., 2) hands it to the builders; *)
(* the model holds it in hundredths.                                       *)

MaxHundredths == 10100    \* discount values up to 101.00

PERCENT_OFF == "percent_off"
VALUE_OFF == "value_off"

InvalidValue == -1        \* a string that is no number, e.g. "abc"

Returned(value) == [exc |-> NoException, value |-> value]
Raised(exc) == [exc |-> exc, value |-> 0]

\* int(x) for the non-negative fraction num / den: the digits before the
\* point
int(num, den) == num \div den

SENTINEL == 32767

\* the percentage branch without the max(0, ...) clamp
percent_priority_unclamped(hundredths) == 100 - int(hundredths, 100)

\* max(0, 100 - int(float(discount_value)))
percent_priority(hundredths) ==
    IF 100 - int(hundredths, 100) > 0 THEN 100 - int(hundredths, 100) ELSE 0

\* int(10000 / decimal.Decimal(discount_value)) for a value > 0
amount_priority(hundredths) == int(10000 * 100, hundredths)

compute_evaluate_priority(discount_type, discount_value) ==
    IF discount_type = PERCENT_OFF
    THEN IF discount_value = InvalidValue
         THEN \* float() raises ValueError, which the except clause lets by
              Raised(Exc("ValueError", NoAttr, "could not convert string to float"))
         ELSE Returned(percent_priority(discount_value))
    ELSE IF discount_value = InvalidValue \/ discount_value = 0
    THEN \* decimal.InvalidOperation or ZeroDivisionError, caught
         Returned(SENTINEL)
    ELSE Returned(amount_priority(discount_value))

\* done: the call has returned result (or raised result.exc)
NoCalc == [fn |-> "", arg1 |-> "", arg2 |-> 0, done |-> FALSE, result |-> 0]

PriorityCalls ==
    { [fn |-> "compute_evaluate_priority", arg1 |-> t, arg2 |-> v,
       done |-> FALSE, result |-> 0] :
        t \in {PERCENT_OFF, VALUE_OFF, "fixed_price"},
        v \in {InvalidValue} \cup 0..MaxHundredths }

TargetTypes == {MISSING, "line_item", "shipping_line", ""}
TargetSelections == {MISSING, "all", "entitled", "prerequisite", "unknown"}

FamilyCalls ==
    { [fn |-> "determine_family", arg1 |-> t, arg2 |-> sel,
       done |-> FALSE, result |-> 0] :
        t \in TargetTypes, sel \in TargetSelections }

CallPriority ==
    /\ calc.fn = "compute_evaluate_priority"
    /\ ~calc.done
    /\ calc' = [calc EXCEPT
                  !.done = TRUE,
                  !.result = compute_evaluate_priority(calc.arg1, calc.arg2)]
    /\ UNCHANGED <<ledger, msgs, topic_handlers, pc, req, resp, probe, run,
                   promo_api>>

CallFamily ==
    /\ calc.fn = "determine_family"
    /\ ~calc.done
    /\ calc' = [calc EXCEPT
                  !.done = TRUE,
                  !.result = determine_family(
                                [EmptyDoc EXCEPT !.target_type = calc.arg1,
                                                 !.target_selection = calc.arg2])]
    /\ UNCHANGED <<ledger, msgs, topic_handlers, pc, req, resp, probe, run,
                   promo_api>>

----------------------------------------------------------------------------
(* Specifications *)

Init ==
    /\ ledger = <<>>
    /\ msgs = <<>>
    /\ topic_handlers = {}
    /\ pc = [r \in Slots |-> "idle"]
    /\ req = [r \in Slots |-> NoReq]
    /\ resp = [r \in Slots |-> 0]
    /\ probe = NoProbe
    /\ run = NoRun
    /\ promo_api = <<>>
    /\ calc = NoCalc

Worker(replies) ==
    \/ Ready
    \/ \E i \in DOMAIN msgs : StartProcessing(i)
    \/ \E i \in DOMAIN msgs, reply \in replies : FinishProcessing(i, reply)

\* deliveries are posted one at a time while workers run
Next ==
    \/ \E q \in ValidDeliveries : PostCheck(1, q)
    \/ PostCreate(1)
    \/ Return(1)
    \/ Worker(UpstreamReplies)

Spec == Init /\ [][Next]_vars

\* deliveries are posted concurrently on every request slot
RaceDeliveries ==
    { q \in ValidDeliveries : q.body \in {"inv_level", NotJson, "order"} }

NextRace ==
    \/ \E r \in Slots, q \in RaceDeliveries : PostCheck(r, q)
    \/ \E r \in Slots : PostCreate(r)
    \/ \E r \in Slots : Return(r)
    \/ Worker({Response(200), TimedOut})

SpecRace == Init /\ [][NextRace]_vars

\* arbitrary requests, served one at a time
NextIntake ==
    \/ \E q \in Requests : PostCheck(1, q)
    \/ PostCreate(1)
    \/ Return(1)

SpecIntake == Init /\ [][NextIntake]_vars

\* should_retry applied to each sample exception
InitClassify ==
    /\ Init!1 /\ Init!2 /\ Init!3 /\ Init!4 /\ Init!5 /\ Init!6
    /\ Init!8 /\ Init!9 /\ Init!10
    /\ probe \in { [retries |-> n, exc |-> e, result |-> "unset"] :
                      n \in 0..MaxProbeRetries, e \in SampleExceptions }

NextClassify == Classify

SpecClassify == InitClassify /\ [][NextClassify]_vars

\* the pure functions applied to each sample argument list
InitCalls ==
    /\ Init!1 /\ Init!2 /\ Init!3 /\ Init!4 /\ Init!5 /\ Init!6 /\ Init!7
    /\ Init!8 /\ Init!9
    /\ calc \in PriorityCalls \cup FamilyCalls

NextCalls == CallPriority \/ CallFamily

SpecCalls == InitCalls /\ [][NextCalls]_vars

\* price-rule deliveries are posted one at a time while a worker runs
\* their handlers request by request
PromoBodies ==
    {"rule_shipping", "rule_bad_selection", "rule_basket",
     "rule_basket_no_title", "rule_basket_bad_value_type",
     "rule_bad_value_type", "rule_products", "rule_variants",
     "rule_collections", "rule_products_collections",
     "rule_variants_collections", "rule_no_entitled"}

PromoDeliveries ==
    { Delivery("promotions", t, b, "wh_1") :
        t \in BuilderTopics, b \in PromoBodies }
    \cup { Delivery("inventory", "inventory_levels/update", "inv_level", "wh_1") }

\* a handler that builds no promotion runs in one step
FinishOther(i, reply) ==
    /\ msgs[i].state = "running"
    /\ ledger[msgs[i].event_id].topic \notin BuilderTopics
    /\ FinishProcessing(i, reply)

EdgeItems ==
    { Items(<<>>, <<>>, <<>>),
      Items(<<>>, <<Gid("Product", "p2")>>, <<>>),
      Items(<<>>, <<>>, <<Gid("ProductVariant", "v2")>>),
      Items(<<Gid("Collection", "c2")>>, <<Gid("Product", "p2")>>, <<>>),
      Items(<<>>, <<Gid("Product", "p1")>>, <<Gid("ProductVariant", "v1")>>) }

BxgyDiscounts ==
    { [id |-> "gid-1", typename |-> t, customerGets |-> g, customerBuys |-> b] :
        t \in {"DiscountPercentage", "DiscountQuantity", ""},
        g \in EdgeItems, b \in EdgeItems }

\* buy/get discounts with nothing to resolve
UnresolvableDiscounts ==
    { d \in BxgyDiscounts : /\ d.customerGets = Items(<<>>, <<>>, <<>>)
                            /\ d.customerBuys = Items(<<>>, <<>>, <<>>) }

PromoWorker ==
    \/ Ready
    \/ \E i \in DOMAIN msgs : StartProcessing(i)
    \/ \E i \in DOMAIN msgs : BeginHandler(i)
    \/ ResolverLoop
    \/ \E reply \in ResolverReplies : ResolverReply(reply)
    \/ Commit("committed")
    \/ \E i \in DOMAIN msgs : EndHandler(i)
    \/ \E i \in DOMAIN msgs, reply \in UpstreamReplies : FinishOther(i, reply)

NextDeliveries ==
    \/ \E q \in PromoDeliveries : PostCheck(1, q)
    \/ PostCreate(1)
    \/ Return(1)
    \/ PromoWorker

\* the same while the service module is called to build buy/get discounts
NextPromo ==
    \/ NextDeliveries
    \/ \E d \in UnresolvableDiscounts : CallBuildBxgy(d)
    \/ CallReturn

SpecPromo == Init /\ [][NextPromo]_vars

\* deliveries alone, under fair scheduling of the worker: a step the
\* worker can take is eventually taken
Fairness ==
    /\ \A i \in 1..2 : WF_vars(i \in DOMAIN msgs /\ StartProcessing(i))
    /\ \A i \in 1..2 : WF_vars(i \in DOMAIN msgs /\ BeginHandler(i))
    /\ \A i \in 1..2 : WF_vars(i \in DOMAIN msgs /\ EndHandler(i))
    /\ \A i \in 1..2 :
          WF_vars(i \in DOMAIN msgs
                    /\ \E reply \in UpstreamReplies : FinishOther(i, reply))
    /\ WF_vars(ResolverLoop)
    /\ WF_vars(Commit("committed"))
    /\ WF_vars(\E reply \in ResolverReplies : ResolverReply(reply))

SpecPromoFair == Init /\ [][NextDeliveries]_vars /\ Fairness

\* the builders of the service module called directly, request by request
EasyRules ==
    { JsonDocs[b] : b \in {"rule_products", "rule_variants",
                           "rule_collections", "rule_products_collections",
                           "rule_variants_collections", "rule_no_entitled",
                           "rule_bad_value_type"} }

NextBuild ==
    \/ \E price_rule \in EasyRules : CallBuildEasy(price_rule)
    \/ \E d \in BxgyDiscounts : CallBuildBxgy(d)
    \/ ResolverLoop
    \/ \E reply \in ResolverReplies : ResolverReply(reply)
    \/ CallReturn

SpecBuild == Init /\ [][NextBuild]_vars

\* price_rules/create deliveries while the promotions service may fail a
\* commit; a message meets at most MaxCommitFailures failed commits
MaxCommitFailures == 2

CommitDeliveries ==
    { Delivery("promotions", "price_rules/create", b, "wh_1") :
        b \in {"rule_basket", "rule_products", "rule_variants",
               "rule_shipping"} }

NextCommit ==
    \/ \E q \in CommitDeliveries : PostCheck(1, q)
    \/ PostCreate(1)
    \/ Return(1)
    \/ Ready
    \/ \E i \in DOMAIN msgs : StartProcessing(i)
    \/ \E i \in DOMAIN msgs : BeginHandler(i)
    \/ ResolverLoop
    \/ \E reply \in {Response(200), Response(404)} : ResolverReply(reply)
    \/ \E outcome \in CommitOutcomes :
          /\ run.phase = "commit"
          /\ outcome # "committed"
                => msgs[run.owner].retries < MaxCommitFailures
          /\ Commit(outcome)
    \/ \E i \in DOMAIN msgs : EndHandler(i)

SpecCommit == Init /\ [][NextCommit]_vars

\* collections/update deliveries and the price rules the shop lists
Rule(id, price_rule) == [price_rule EXCEPT !.id = id]

ListedRules ==
    [n \in {"item", "basket", "other", "shipping", "invalid"} |->
       CASE n = "item" ->
              Rule("r1", Entitled(<<"p1">>, <<>>, <<"c1">>))
         [] n = "basket" ->
              Rule("r2", [PriceRule("all", "fixed_amount") EXCEPT
                            !.entitled_product_ids = <<>>,
                            !.prerequisite_collection_ids = <<"c2", "c1">>])
         [] n = "other" ->
              Rule("r3", Entitled(<<>>, <<>>, <<"c2">>))
         [] n = "shipping" ->
              Rule("r4", [PriceRule("all", "percentage") EXCEPT
                            !.target_type = "shipping_line",
                            !.entitled_product_ids = <<>>,
                            !.entitled_collection_ids = <<"c1">>])
         [] n = "invalid" ->
              Rule("r5", [Entitled(<<>>, <<>>, <<"c1">>) EXCEPT
                            !.value_type = "bogus"]) ]

Listings ==
    { <<>>,
      <<ListedRules["other"]>>,
      <<ListedRules["shipping"]>>,
      <<ListedRules["other"], ListedRules["basket"]>>,
      <<ListedRules["item"], ListedRules["other"], ListedRules["basket"]>>,
      <<ListedRules["basket"], ListedRules["shipping"], ListedRules["item"]>>,
      <<ListedRules["basket"], ListedRules["invalid"]>>,
      <<ListedRules["invalid"], ListedRules["basket"]>> }

CollectionDeliveries ==
    { Delivery("promotions", "collections/update", b, "wh_1") :
        b \in {"collection_c1", "collection_no_id"} }

NextCollections ==
    \/ \E q \in CollectionDeliveries : PostCheck(1, q)
    \/ PostCreate(1)
    \/ Return(1)
    \/ Ready
    \/ \E i \in DOMAIN msgs : StartProcessing(i)
    \/ \E i \in DOMAIN msgs, price_rules \in Listings,
          reply \in {Response(200), Response(503), TimedOut} :
          BeginCollectionUpdate(i, price_rules, reply)
    \/ RebuildNext
    \/ ResolverLoop
    \/ \E reply \in {Response(200), Response(404), TimedOut} :
          ResolverReply(reply)
    \/ Commit("committed")
    \/ \E i \in DOMAIN msgs : EndHandler(i)

SpecCollections == Init /\ [][NextCollections]_vars


----------------------------------------------------------------------------
(* Properties of intake under concurrent requests *)

\* messages sent for the rows of one delivery id
SendsFor(ms, led, webhook_id) ==
    { i \in DOMAIN ms : led[ms[i].event_id].webhook_id = webhook_id }

\* slot r lost the insert: its create() met a row committed after its
\* existence check
LostRace(r) ==
    /\ pc[r] = "done"
    /\ resp[r] = 500
    /\ req[r].body \in DOMAIN JsonDocs
    /\ Exists(ledger, req[r].webhook_id)

\* C1: in every reachable state, whatever the interleaving of requests and
\* workers, the ledger holds at most one row per delivery id
C1_OneRowPerDeliveryId ==
    \A i, j \in DOMAIN ledger :
        ledger[i].webhook_id = ledger[j].webhook_id => i = j

\* two requests raced for one id while the other id is ledgered too
C1_Witness ==
    /\ \E r \in Slots : LostRace(r)
    /\ \A w \in DeliveryIds : Exists(ledger, w)

\* C4: two valid deliveries with the same id handled concurrently are both
\* answered 200
C4_BothAnswered200 ==
    \A r, s \in Slots :
        ( /\ r # s
          /\ pc[r] = "done" /\ pc[s] = "done"
          /\ req[r].webhook_id = req[s].webhook_id
          /\ req[r].body \in DOMAIN JsonDocs
          /\ req[s].body \in DOMAIN JsonDocs )
        => (resp[r] = 200 /\ resp[s] = 200)

\* C5: under any interleaving of intake requests for one delivery id, at
\* most one worker task is ever enqueued for that id
C5_OneTaskPerDeliveryId ==
    \A w \in DeliveryIds : Cardinality(SendsFor(msgs, ledger, w)) <= 1

\* a request lost the race for an id whose task a worker has already taken
C5_Witness ==
    \E r \in Slots :
        /\ LostRace(r)
        /\ \E i \in SendsFor(msgs, ledger, req[r].webhook_id) :
              msgs[i].state # "queued"

----------------------------------------------------------------------------
(* Properties of sequential intake *)

\* slot r finishes its request in this step
Completes(r) == pc[r] # "done" /\ pc'[r] = "done"

\* C2: the same valid delivery (here: one with a well-formed body)
\* submitted n >= 2 times in sequence is answered 200 every time and
\* leaves exactly one row and exactly one enqueued task for its id; a
\* submission that finds the row leaves the ledger as it was, whatever the
\* row's status
C2_SequentialIdempotent ==
    [][\A r \in Slots :
          (Completes(r) /\ req'[r].body \in DOMAIN JsonDocs) =>
            LET w == req'[r].webhook_id
            IN  /\ resp'[r] = 200
                /\ Cardinality(RowsWith(ledger', w)) = 1
                /\ Cardinality(SendsFor(msgs', ledger', w)) = 1
                /\ (Exists(ledger, w) => ledger' = ledger /\ msgs' = msgs)]_vars

\* the response the ordered checks of the claim give a request: 0 when all
\* five pass
FirstFailedCheck(q) ==
    IF q.shop_domain = "" THEN 400
    ELSE IF ActiveConfigs(q.shop_domain) = {} THEN 404
    ELSE IF \A c \in ActiveConfigs(q.shop_domain) :
               q.hmac_header # HmacOf(q.body, c.webhook_secret) THEN 401
    ELSE IF q.webhook_id = "" THEN 400
    ELSE IF q.topic \notin allowed_topics(q.endpoint) THEN 400
    ELSE 0

\* C3: intake answers with the response of the first failing check in the
\* order domain (400), tenant (404), signature (401), delivery id (400),
\* topic (400), duplicate (200, no action); a failure of one of the first
\* five leaves the ledger unchanged and enqueues nothing
C3_ChecksInOrder ==
    [][\A r \in Slots :
          (pc[r] = "idle" /\ pc'[r] # "idle") =>
            LET q == req'[r]
                code == FirstFailedCheck(q)
            IN  IF code # 0
                THEN /\ pc'[r] = "done" /\ resp'[r] = code
                     /\ ledger' = ledger /\ msgs' = msgs
                ELSE IF Exists(ledger, q.webhook_id)
                THEN /\ pc'[r] = "done" /\ resp'[r] = 200
                     /\ ledger' = ledger /\ msgs' = msgs
                ELSE pc'[r] = "create"]_vars

\* C6: on every endpoint a request with a well-formed JSON body that
\* inserts a row also enqueues exactly one task for that row before it is
\* answered 200
C6_InsertEnqueues ==
    [][\A r \in Slots :
          ( /\ Completes(r)
            /\ Len(ledger') = Len(ledger) + 1
            /\ req[r].body \in DOMAIN JsonDocs )
          => /\ Len(msgs') = Len(msgs) + 1
             /\ msgs'[Len(msgs')].event_id = Len(ledger')
             /\ resp'[r] = 200]_vars

----------------------------------------------------------------------------
(* Properties of the worker and its retry policy *)

StatusEdges ==
    { <<"received", "processing">>, <<"processing", "success">>,
      <<"processing", "failed">> }

Moves(edges) ==
    /\ Len(ledger') >= Len(ledger)
    /\ \A i \in DOMAIN ledger :
          ledger'[i].status # ledger[i].status
            => <<ledger[i].status, ledger'[i].status>> \in edges
    /\ \A i \in DOMAIN ledger' \ DOMAIN ledger : ledger'[i].status = "received"

\* C7 as stated: a row is created received and its status moves only
\* received->processing, processing->success, processing->failed, so
\* success and failed are final
C7_StatusLifecycle == [][Moves(StatusEdges)]_vars

\* C7 amended: a retry also moves a row failed->processing; success is
\* final, and a failed row changes only by being picked up again
C7_StatusLifecycleWithRetry ==
    [][Moves(StatusEdges \cup {<<"failed", "processing">>})]_vars

\* a row that failed is being processed again
C7_Witness ==
    \E i \in DOMAIN msgs :
        /\ msgs[i].retries >= 1
        /\ msgs[i].state = "running"
        /\ ledger[msgs[i].event_id].status = "processing"
        /\ ledger[msgs[i].event_id].error_message # ""

\* the exceptions the claim calls transient
ClaimedTransient(exception) ==
    \/ isinstance(exception,
                  {"requests.ConnectionError", "builtins.ConnectionError"})
    \/ isinstance(exception, {"requests.Timeout", "TimeoutError"})
    \/ /\ exception.response \notin {NoAttr, NoneResp}
       /\ (exception.response = 429
             \/ (500 <= exception.response /\ exception.response < 600))

\* C8: should_retry is true exactly for a connection failure, a timeout or
\* an exception carrying a 429 or 5xx response, and false otherwise, in
\* particular for an HTTP error with another 4xx status
C8_RetryClassification ==
    probe.result # "unset"
      => (probe.result = "True" <=> ClaimedTransient(probe.exc))

\* number of times _process_event was started for a message
Attempts(m) == IF m.state = "queued" THEN m.retries ELSE m.retries + 1

\* C9: a delivery whose handler fails transiently every time is processed
\* at most max_retries + 1 = 6 times and then stays failed
C9_AttemptsCapped ==
    \A i \in DOMAIN msgs :
        /\ Attempts(msgs[i]) <= max_retries + 1
        /\ (Attempts(msgs[i]) = max_retries + 1 /\ msgs[i].state # "running")
             => (msgs[i].state = "failed"
                   /\ ledger[msgs[i].event_id].status = "failed")

Unclassifiable(m) ==
    /\ ledger[m.event_id].topic = "price_rules/create"
    /\ determine_family(m.payload) = NoFamily

\* malformed payload or unknown discount encoding
BadPayload(m) ==
    \/ /\ ledger[m.event_id].topic = "inventory_levels/update"
       /\ m.payload.inventory_item_id = MISSING
    \/ /\ ledger[m.event_id].topic = "price_rules/create"
       /\ determine_family(m.payload) # NoFamily
       /\ \/ m.payload.starts_at = MISSING
          \/ m.payload.value_type \notin {"percentage", "fixed_amount"}

MissingHandler(m) ==
    ledger[m.event_id].error_message = "No handler for topic"

\* the message was processed exactly once and will not be processed again
OneAttemptOnly(m) == m.retries = 0 /\ m.state \in {"done", "failed"}

Processed(m) == Attempts(m) >= 1 /\ m.state # "running"

\* C10 as stated: an unclassifiable rule, a malformed payload, a missing
\* handler and an unknown discount encoding all end failed after exactly
\* one attempt
C10_PermanentFailsOnce ==
    \A i \in DOMAIN msgs :
        ( /\ Processed(msgs[i])
          /\ (Unclassifiable(msgs[i]) \/ BadPayload(msgs[i])
                \/ MissingHandler(msgs[i])) )
        => /\ OneAttemptOnly(msgs[i])
           /\ ledger[msgs[i].event_id].status = "failed"

\* C10 amended: a malformed payload, a missing handler and an unknown
\* discount encoding end failed after exactly one attempt; an
\* unclassifiable rule is skipped, so with a handler registered its
\* delivery ends success after exactly one attempt
C10_PermanentOnce ==
    \A i \in DOMAIN msgs :
        /\ ( Processed(msgs[i])
               /\ (BadPayload(msgs[i]) \/ MissingHandler(msgs[i])) )
             => /\ OneAttemptOnly(msgs[i])
                /\ ledger[msgs[i].event_id].status = "failed"
        /\ ( Processed(msgs[i]) /\ Unclassifiable(msgs[i])
               /\ ~MissingHandler(msgs[i]) )
             => /\ OneAttemptOnly(msgs[i])
                /\ ledger[msgs[i].event_id].status = "success"

\* with handlers registered, a malformed payload has failed for good and
\* an unclassifiable rule has been skipped
C10_Witness ==
    /\ \E i \in DOMAIN msgs :
          /\ BadPayload(msgs[i]) /\ msgs[i].state = "failed"
          /\ ~MissingHandler(msgs[i])
    /\ \E i \in DOMAIN msgs :
          /\ Unclassifiable(msgs[i]) /\ msgs[i].state = "done"
          /\ ledger[msgs[i].event_id].status = "success"

----------------------------------------------------------------------------
(* Properties of the price-rule handlers and the SKU resolvers *)

\* message i was dispatched and its row has reached success or failed
Terminal(i) ==
    /\ i \in DOMAIN msgs
    /\ ledger[msgs[i].event_id].status \in {"success", "failed"}

\* a resolver is looping and its last request was answered 429
RateLimited == run.phase \in {"loop", "await"} /\ run.response = 429

\* C11 as stated: under fair scheduling of workers every dispatched
\* delivery eventually reaches success or failed, whatever the upstream
\* answers to the SKU resolver
C11_DispatchedTerminates ==
    \A i \in 1..2 : (i \in DOMAIN msgs) ~> Terminal(i)

\* C11 amended: under fair scheduling of workers every dispatched delivery
\* eventually reaches success or failed, provided the upstream does not
\* answer 429 to the SKU resolver forever
C11_TerminatesUnlessRateLimitedForever ==
    ([]<>~RateLimited) => \A i \in 1..2 : (i \in DOMAIN msgs) ~> Terminal(i)

\* a delivery whose SKUs were resolved has been published and has ended
C11_Witness ==
    /\ Terminal(1)
    /\ ledger[msgs[1].event_id].status = "success"
    /\ \E b \in DOMAIN promo_api : \E k \in DOMAIN promo_api[b] :
          /\ promo_api[b][k].op = "create"
          /\ promo_api[b][k].promo.family = "e"
          /\ promo_api[b][k].promo.groups[1].nodes # <<>>

\* a worker enters the handler of a price-rule delivery in this step
HandlerEntered ==
    /\ run.phase = "idle"
    /\ run'.owner \in DOMAIN msgs
    /\ run'.found

\* C12: for price_rules/create and price_rules/update a rule that
\* determine_family maps to none makes the handler return without raising
\* and without any create, delete or commit to the promotions API
C12_UnmappableRuleSkipped ==
    [][(HandlerEntered /\ determine_family(run'.price_rule) = NoFamily)
         => /\ run'.phase = "done"
            /\ run'.exc = NoException
            /\ run'.promo = NoPromo
            /\ run'.batch = <<>>
            /\ promo_api' = promo_api]_vars

\* the update handler has returned on a line-item rule whose target
\* selection is not recognised
C12_Witness ==
    /\ run.phase = "done"
    /\ run.caller = "handle_price_rule_update"
    /\ run.found
    /\ run.price_rule.target_type = "line_item"
    /\ determine_family(run.price_rule) = NoFamily
    /\ run.exc = NoException

\* the list the active loop pops from
ActiveQueue(r) == IF r.nested THEN r.product_ids ELSE r.queue

\* the request in flight is answered 429 in this step
Answered429 ==
    run.phase = "await" /\ run'.phase = "loop" /\ run'.response = 429

\* the active loop pops an identifier and requests it in this step
Popped == run.phase = "loop" /\ run'.phase = "await"

\* C13: in each resolver loop a 429 puts the popped identifier back at the
\* front of the queue, which is then what it was before the pop, leaves
\* the result lists unchanged, and the next request is for the same
\* identifier; nothing caps the repetition: a request in flight can always
\* be answered 429 again
C13_RateLimitedRequeuesAtFront ==
    /\ [][/\ Answered429 =>
               /\ ActiveQueue(run') = <<run.ident>> \o ActiveQueue(run)
               /\ run'.nested = run.nested
               /\ run'.skus = run.skus
               /\ run'.product_sku = run.product_sku
               /\ run'.answers = run.answers
               /\ run'.ident = run.ident
          /\ Popped =>
               /\ run'.ident = Head(ActiveQueue(run))
               /\ ActiveQueue(run') = Tail(ActiveQueue(run))
               /\ run'.skus = run.skus]_vars
    /\ [](run.phase = "await" => ENABLED ResolverReply(Response(429)))

\* the variants resolver, one SKU collected, was answered 429 for the
\* second identifier, which is at the front of the queue again
C13_Witness ==
    /\ run.phase = "loop"
    /\ run.response = 429
    /\ run.resolver = "get_sku_from_variants"
    /\ run.skus = <<"sku3">>
    /\ run.queue = <<"v2">>
    /\ run.ident = "v2"

\* the list of identifiers the running resolver was called with
InitialIds(r) ==
    IF r.stage = "entitled" THEN entitled_ids(r.price_rule).ids
    ELSE IF r.stage = "customerGets"
    THEN resolve_skus_from_edges(r.discount.customerGets).ids
    ELSE resolve_skus_from_edges(r.discount.customerBuys).ids

\* the barcodes the catalog holds for the identifier of a 200 answer
SkusOf(answer) ==
    IF answer[3] # 200 THEN <<>>
    ELSE IF answer[1] = "products"
    THEN SelectSeq(ProductVariants[answer[2]], LAMBDA b : b # NullBarcode)
    ELSE IF answer[1] = "variants"
    THEN SelectSeq(<<VariantBarcode[answer[2]]>>, LAMBDA b : b # NullBarcode)
    ELSE <<>>

RECURSIVE ExpectedSkus(_)
ExpectedSkus(answers) ==
    IF answers = <<>> THEN <<>>
    ELSE SkusOf(Head(answers)) \o ExpectedSkus(Tail(answers))

\* the identifiers a resolver requested itself, in request order
RECURSIVE TopLevelIds(_, _)
TopLevelIds(answers, endpoint) ==
    IF answers = <<>> THEN <<>>
    ELSE (IF Head(answers)[1] = endpoint THEN <<Head(answers)[2]>> ELSE <<>>)
           \o TopLevelIds(Tail(answers), endpoint)

NonNull(skus) == SelectSeq(skus, LAMBDA sku : sku # NullBarcode)

\* the resolver is about to return run.skus
Returning(r) == r.phase = "loop" /\ ~r.nested /\ r.queue = <<>>

\* the request in flight gets a status that is neither 200 nor 429
AnsweredError ==
    /\ run.phase = "await" /\ run'.phase = "loop"
    /\ run'.response \notin {200, 429}

\* C14: in each resolver loop a response that is neither 200 nor 429 drops
\* exactly the identifier requested and resolution goes on with the rest
\* of the queue; the resolver returns normally and its result holds, in
\* queue order, the SKUs of every identifier that answered 200 (entries
\* without a barcode aside)
C14_ErrorDropsOneIdentifier ==
    /\ [][AnsweredError =>
            /\ run'.queue = run.queue
            /\ run'.product_ids = run.product_ids
            /\ run'.skus = run.skus
            /\ run'.product_sku = run.product_sku
            /\ run'.nested = run.nested]_vars
    /\ [](Returning(run) =>
            /\ NonNull(run.skus) = ExpectedSkus(run.answers)
            /\ TopLevelIds(run.answers, Endpoint(run)) = InitialIds(run))

\* the products resolver returns the SKU of the second product after the
\* first was answered 404
C14_Witness ==
    /\ Returning(run)
    /\ run.resolver = "get_products_sku"
    /\ run.answers = << <<"products", "p1", 404>>, <<"products", "p2", 200>> >>
    /\ run.skus = <<"sku2">>

\* a request of the resolver raises in this step
TransportError ==
    /\ run.phase = "await" /\ run'.phase = "done"
    /\ run.owner \in DOMAIN msgs

\* the worker records the outcome of a handler that a resolver's exception
\* ended
AbortRecorded ==
    /\ run.phase = "done" /\ run.owner \in DOMAIN msgs
    /\ run.found /\ run.exc = FetchError
    /\ run' = NoRun

\* C15: a transport exception during a resolver request aborts the whole
\* resolution: the resolver raises, the SKUs collected so far are dropped,
\* no Promotion is built, nothing is committed to the promotions API, and
\* the delivery ends failed without being retried
C15_TransportErrorAborts ==
    [][/\ TransportError =>
            /\ run'.exc = FetchError
            /\ run'.skus = <<>> /\ run'.product_sku = <<>>
            /\ run'.promo = NoPromo
            /\ run'.batch = <<>>
            /\ promo_api' = promo_api
       /\ AbortRecorded =>
            /\ ledger'[msgs[run.owner].event_id].status = "failed"
            /\ msgs'[run.owner].state = "failed"
            /\ msgs'[run.owner].retries = 0
            /\ promo_api' = promo_api]_vars

\* a price-rule delivery has failed for good on a resolver's exception,
\* with nothing committed
C15_Witness ==
    \E i \in DOMAIN msgs :
        /\ msgs[i].state = "failed" /\ msgs[i].retries = 0
        /\ ledger[msgs[i].event_id].status = "failed"
        /\ ledger[msgs[i].event_id].error_message = FetchError.msg
        /\ promo_api = <<>>
        /\ run = NoRun

\* C16: no Promotion with a Group of zero Nodes is ever committed to the
\* promotions API as a create
C16_NoEmptyGroupPublished ==
    \A b \in DOMAIN promo_api : \A k \in DOMAIN promo_api[b] :
        promo_api[b][k].op = "create" =>
            \A g \in DOMAIN promo_api[b][k].promo.groups :
                promo_api[b][k].promo.groups[g].nodes # <<>>

\* the three sources of a descriptor, flat or graph, as lists of ids
Descriptor(r, stage) ==
    IF stage = "entitled"
    THEN [products |-> r.price_rule.entitled_product_ids,
          variants |-> r.price_rule.entitled_variant_ids,
          collections |-> r.price_rule.entitled_collection_ids]
    ELSE LET items == IF stage = "customerGets" THEN r.discount.customerGets
                      ELSE r.discount.customerBuys
         IN  [products |-> extract_ids(items.products),
              variants |-> extract_ids(items.productVariants),
              collections |-> extract_ids(items.collections)]

\* the first non-empty source in the order product, variant, collection
ClaimedSource(d) ==
    IF d.products # <<>>
    THEN [resolver |-> "get_products_sku", ids |-> d.products]
    ELSE IF d.variants # <<>>
    THEN [resolver |-> "get_sku_from_variants", ids |-> d.variants]
    ELSE IF d.collections # <<>>
    THEN [resolver |-> "get_products_from_collections", ids |-> d.collections]
    ELSE [resolver |-> NoResolver, ids |-> <<>>]

\* a resolver is entered in this step
ResolverEntered ==
    /\ run'.phase = "loop"
    /\ run.phase \in {"idle", "done"} \/ run'.stage # run.stage

\* resolution of a descriptor is asked for in this step: by a builder that
\* has validated its fields, or by the buy/get builder for its second group
ResolutionAsked(stage) ==
    \/ /\ run.phase = "idle" /\ run'.phase # "idle"
       /\ stage = (IF run'.caller = "build_bxgy_promotion"
                   THEN "customerGets" ELSE "entitled")
       /\ IF run'.caller = "build_bxgy_promotion"
          THEN build_bxgy_promotion_fields(run'.discount) = NoException
          ELSE build_easy_promotion_fields(run'.price_rule) = NoException
    \/ /\ Returning(run) /\ run.stage = "customerGets"
       /\ run' # run
       /\ stage = "customerBuys"

\* C17: for the flat and the graph descriptor alike, resolution uses the
\* first non-empty source in the order product, variant, collection, and
\* raises when every source is empty
C17_SourceOrder ==
    [][\A stage \in {"entitled", "customerGets", "customerBuys"} :
          ResolutionAsked(stage) =>
            LET src == ClaimedSource(Descriptor(run', stage))
            IN  IF src.resolver = NoResolver
                THEN run'.phase = "done" /\ run'.exc # NoException
                ELSE /\ run'.phase = "loop"
                     /\ run'.resolver = src.resolver
                     /\ run'.queue = src.ids]_vars

\* C18: the list each of the three resolvers returns holds no null or
\* empty entry
C18_NoNullSku ==
    /\ Returning(run) => \A k \in DOMAIN run.skus : ~falsy(run.skus[k])
    /\ (run.phase = "loop" /\ run.nested /\ run.product_ids = <<>>)
         => \A k \in DOMAIN run.product_sku : ~falsy(run.product_sku[k])

\* the update handler finishes in this step
UpdateCompleted ==
    /\ run.phase # "done" /\ run'.phase = "done"
    /\ run'.caller = "handle_price_rule_update"
    /\ run'.found

\* C19: price_rules/update queues on one batch a delete of the promotion
\* whose promo_id is the rule id, then a create of the rebuilt promotion,
\* and commits exactly once; nothing is queued or committed before the
\* build has returned, so when the build raises or the rule is
\* unclassifiable there is neither delete nor commit
C19_UpdateReplacesInOneBatch ==
    [][("handle_price_rule_update" \in {run.caller, run'.caller}) =>
          IF UpdateCompleted /\ run'.promo # NoPromo
          THEN /\ run'.exc = NoException
               /\ run'.promo.promo_id = run'.price_rule.id
               /\ run'.batch = <<DeleteOp(run'.price_rule.id),
                                 CreateOp(run'.promo)>>
               /\ promo_api' = Append(promo_api, run'.batch)
          ELSE /\ promo_api' = promo_api
               /\ (UpdateCompleted \/ run'.phase \in {"loop", "await"})
                    => run'.batch = <<>>]_vars

\* an update has replaced the promotion of its rule with one that has
\* nodes, in a single committed batch
C19_Witness ==
    /\ run.phase = "done"
    /\ run.caller = "handle_price_rule_update"
    /\ Len(run.batch) = 2
    /\ run.batch[2].promo.groups[1].nodes = <<"sku1", "sku2">>
    /\ promo_api = <<run.batch>>

\* the rule fails the validation of its family's builder
InvalidRule(price_rule) ==
    \/ /\ determine_family(price_rule) = "b"
       /\ price_rule.title \in {MISSING, ""}
    \/ /\ determine_family(price_rule) # NoFamily
       /\ price_rule.value_type \notin {"percentage", "fixed_amount"}

InvalidDiscount(automatic_discount) ==
    automatic_discount.typename \notin
        {"DiscountPercentage", "DiscountOnQuantity", "DiscountAmount"}

\* C20: a basket-threshold rule with an empty title, or a discount value
\* type outside percentage / fixed_amount (flat rules) or outside
\* DiscountPercentage / DiscountOnQuantity / DiscountAmount (buy/get
\* rules), makes the build raise without producing a Promotion; the
\* handler then issues no promotions-API operation and the delivery ends
\* failed without a retry
C20_ValidationFailureIsFinal ==
    [][/\ (HandlerEntered /\ InvalidRule(run'.price_rule)) =>
            /\ run'.phase = "done" /\ run'.exc # NoException
            /\ run'.promo = NoPromo /\ run'.batch = <<>>
            /\ promo_api' = promo_api
       /\ ( /\ run.phase = "idle"
            /\ run'.caller = "build_bxgy_promotion"
            /\ InvalidDiscount(run'.discount) ) =>
            /\ run'.phase = "done" /\ run'.exc # NoException
            /\ run'.promo = NoPromo
            /\ ~will_retry(0, run'.exc)
            /\ promo_api' = promo_api
       /\ ( /\ run.phase = "done" /\ run.owner \in DOMAIN msgs /\ run.found
            /\ InvalidRule(run.price_rule)
            /\ run' = NoRun ) =>
            /\ ledger'[msgs[run.owner].event_id].status = "failed"
            /\ msgs'[run.owner].state = "failed"
            /\ msgs'[run.owner].retries = 0
            /\ promo_api' = promo_api]_vars

\* a basket-threshold delivery without a title has failed for good with
\* nothing committed, and the buy/get builder has refused a discount type
C20_Witness ==
    /\ \E i \in DOMAIN msgs :
          /\ msgs[i].state = "failed" /\ msgs[i].retries = 0
          /\ ledger[msgs[i].event_id].error_message =
                "Basket Threshold promotion requires a title"
    /\ promo_api = <<>>
    /\ run.phase = "done"
    /\ run.caller = "build_bxgy_promotion"
    /\ run.discount.typename = "DiscountQuantity"
    /\ run.exc.cls = "ValueError"

----------------------------------------------------------------------------
(* Properties of the signature verifier, the priority and family functions *)
(* and the handling of unparseable bodies                                  *)

\* C21: verify_shopify_hmac returns true exactly when the signature is the
\* base64 HMAC-SHA256 of the body under the secret and false, without
\* raising, for every other signature (empty, non-ASCII); at intake such a
\* signature is answered 401
C21_VerifierTotal ==
    [][\A r \in Slots :
          ( /\ pc[r] = "idle" /\ pc'[r] # "idle"
            /\ req'[r].shop_domain # ""
            /\ ActiveConfigs(req'[r].shop_domain) # {} ) =>
            \A c \in ActiveConfigs(req'[r].shop_domain) :
               LET q == req'[r]
                   verified == verify_shopify_hmac(q.body, q.hmac_header,
                                                   c.webhook_secret)
               IN  /\ verified =
                        (IF q.hmac_header = HmacOf(q.body, c.webhook_secret)
                         THEN "True" ELSE "False")
                   /\ verified # "True" =>
                        pc'[r] = "done" /\ resp'[r] = 401]_vars

\* message i is re-enqueued for another attempt in this step
Retried(i) ==
    /\ msgs'[i].state = "queued"
    /\ msgs'[i].retries = msgs[i].retries + 1

\* C22: a timeout on an outbound call made while a delivery is processed,
\* the catalog lookups of the SKU resolver included, is transient: the
\* attempt it ends is followed by a retry of the delivery
C22_TimeoutIsTransient ==
    [][/\ AbortRecorded => Retried(run.owner)
       /\ \A i \in DOMAIN msgs :
            ( /\ msgs[i].state = "running" /\ msgs'[i].state # "running"
              /\ ledger[msgs[i].event_id].topic \notin BuilderTopics
              /\ ledger'[msgs[i].event_id].status = "failed"
              /\ ledger'[msgs[i].event_id].error_message = "Read timed out" )
            => Retried(i)]_vars

\* compute_evaluate_priority has returned for a numeric discount value
PriorityOf(discount_types) ==
    /\ calc.fn = "compute_evaluate_priority" /\ calc.done
    /\ calc.arg1 \in discount_types
    /\ calc.arg2 # InvalidValue

Max0(n) == IF n > 0 THEN n ELSE 0

\* C23: for a percentage p >= 0 compute_evaluate_priority returns
\* max(0, 100 - floor(p)): never negative, non-increasing in p, with
\* 10 -> 90, 50 -> 50, 100 -> 0 and above 100 -> 0; for a fixed amount
\* a > 0 it returns floor(10000 / a), non-increasing in a; for a = 0 it
\* returns 32767
C23_PriorityValues ==
    /\ PriorityOf({PERCENT_OFF}) =>
         LET p == calc.arg2
         IN  /\ calc.result = Returned(Max0(100 - (p \div 100)))
             /\ calc.result.value >= 0
             /\ p > 0 => compute_evaluate_priority(PERCENT_OFF, p - 1).value
                           >= calc.result.value
             /\ p = 1000 => calc.result.value = 90
             /\ p = 5000 => calc.result.value = 50
             /\ p >= 10000 => calc.result.value = 0
    /\ PriorityOf({VALUE_OFF}) =>
         LET a == calc.arg2
         IN  /\ a > 0 => calc.result = Returned((10000 * 100) \div a)
             /\ a > 1 => compute_evaluate_priority(VALUE_OFF, a - 1).value
                           >= calc.result.value
             /\ a = 0 => calc.result = Returned(32767)

\* a percentage above 100 has been given priority 0
C23_Witness ==
    /\ PriorityOf({PERCENT_OFF})
    /\ calc.arg2 = 10050
    /\ calc.result.value = 0

\* C24: determine_family returns 'e' exactly for target_type line_item
\* with target_selection entitled, 'b' exactly for line_item with all, and
\* none for every other combination, a missing target_type and an
\* unrecognised target_selection included
C24_FamilyTable ==
    (calc.fn = "determine_family" /\ calc.done) =>
        /\ calc.result = "e"
             <=> (calc.arg1 = "line_item" /\ calc.arg2 = "entitled")
        /\ calc.result = "b"
             <=> (calc.arg1 = "line_item" /\ calc.arg2 = "all")
        /\ calc.result \in {"e", "b", NoFamily}

\* a shipping rule that selects all has been classified as none
C24_Witness ==
    /\ calc.fn = "determine_family" /\ calc.done
    /\ calc.arg1 = "shipping_line" /\ calc.arg2 = "all"
    /\ calc.result = NoFamily

\* C30: 32767 is the largest priority compute_evaluate_priority produces:
\* for every fixed amount a > 0 with two decimal places, amounts below
\* 1.00 included, the result lies in 0..32767
C30_SentinelIsMaximum ==
    (PriorityOf({VALUE_OFF, "fixed_price"}) /\ calc.arg2 > 0) =>
        /\ calc.result.exc = NoException
        /\ calc.result.value \in 0..32767

\* the tenant, signature, delivery-id and topic checks pass for q
PassesChecks(q) == FirstFailedCheck(q) = 0

\* every row recorded for the delivery id came from an unparseable body
OnlyUnparseableSeen(led, webhook_id) ==
    \A k \in RowsWith(led, webhook_id) : led[k].payload_hash = sha256(NotJson)

\* C25: a request that passes the tenant, signature, delivery-id and topic
\* checks but whose body is not JSON is answered with a client error and
\* leaves no ledger row, so a later delivery with the same delivery id is
\* not swallowed as a duplicate
C25_UnparseableBodyNotLedgered ==
    [][\A r \in Slots :
          /\ ( /\ Completes(r)
               /\ PassesChecks(req'[r])
               /\ req'[r].body \notin DOMAIN JsonDocs
               /\ OnlyUnparseableSeen(ledger, req'[r].webhook_id) )
             => /\ resp'[r] \in 400..499
                /\ ledger' = ledger /\ msgs' = msgs
          /\ ( /\ pc[r] = "idle" /\ pc'[r] # "idle"
               /\ PassesChecks(req'[r])
               /\ req'[r].body \in DOMAIN JsonDocs
               /\ OnlyUnparseableSeen(ledger, req'[r].webhook_id) )
             => pc'[r] = "create"]_vars

\* C27: in every reachable state a ledger row whose status is success has
\* an empty error_message, a row that failed on an earlier attempt and
\* succeeded on a retry included
C27_SuccessHasNoError ==
    \A k \in DOMAIN ledger :
        ledger[k].status = "success" => ledger[k].error_message = ""

----------------------------------------------------------------------------
(* Properties of the commit to the promotions service and of the           *)
(* collection handlers                                                     *)

\* the committed batches that hold a create of the promotion promo_id
CreatesOf(api, promo_id) ==
    { k \in DOMAIN api :
        \E n \in DOMAIN api[k] :
            api[k][n].op = "create" /\ api[k][n].promo_id = promo_id }

\* C28: over all processing attempts of one price_rules/create delivery
\* the promotions API receives at most one committed create for the rule:
\* an attempt is followed by a retry only if its commit did not take
\* effect
C28_OneCreatePerDelivery ==
    [][/\ \A k \in DOMAIN promo_api' :
            Cardinality(CreatesOf(promo_api', promo_api'[k][1].promo_id)) <= 1
       /\ ( /\ run.phase = "done" /\ run.owner \in DOMAIN msgs
            /\ run' = NoRun
            /\ Retried(run.owner) )
          => CreatesOf(promo_api, run.price_rule.id) = {}]_vars

\* the number of product entries listed by the collections answered 200
RECURSIVE Listed(_)
Listed(answers) ==
    IF answers = <<>> THEN 0
    ELSE (IF Head(answers)[1] = "collections" /\ Head(answers)[3] = 200
          THEN Len(CollectionProducts[Head(answers)[2]]) ELSE 0)
           + Listed(Tail(answers))

\* the product lookups that got an answer other than 429
ProductLookups(answers) ==
    Len(SelectSeq(answers, LAMBDA a : a[1] = "products"))

\* the product lookups still to be answered
Outstanding(r) ==
    Len(r.product_ids) + (IF r.phase = "await" /\ r.nested THEN 1 ELSE 0)

\* C29: while get_products_from_collections works through several
\* collections, products listed by an earlier collection are not requested
\* again for a later one: the product lookups answered other than 429,
\* plus those still to be answered, number the product entries listed by
\* the collections that answered 200, and on return each such entry's
\* SKUs are in the result once
C29_FanOutListsOnce ==
    ( /\ run.resolver = "get_products_from_collections"
      /\ run.phase \in {"loop", "await"} ) =>
        /\ ProductLookups(run.answers) + Outstanding(run) = Listed(run.answers)
        /\ Returning(run) =>
             /\ ProductLookups(run.answers) = Listed(run.answers)
             /\ run.skus = ExpectedSkus(run.answers)

\* two collections that both list p1 have been resolved: p1 was requested
\* once for each listing
C29_Witness ==
    /\ Returning(run)
    /\ run.resolver = "get_products_from_collections"
    /\ run.answers = << <<"collections", "c1", 200>>, <<"products", "p1", 200>>,
                        <<"products", "p2", 200>>, <<"collections", "c2", 200>>,
                        <<"products", "p1", 200>> >>
    /\ run.skus = <<"sku1", "sku2", "sku1">>

\* the ids of the listed rules that name the collection among their
\* entitled or prerequisite collections, in list order
RECURSIVE IdsNaming(_, _, _)
IdsNaming(listing, collection_id, families) ==
    IF listing = <<>> THEN <<>>
    ELSE LET pr == Head(listing)
             named == collection_id \in
                        { pr.entitled_collection_ids[k] :
                            k \in DOMAIN pr.entitled_collection_ids }
                        \cup { pr.prerequisite_collection_ids[k] :
                                 k \in DOMAIN pr.prerequisite_collection_ids }
         IN  (IF named /\ determine_family(pr) \in families
              THEN <<pr.id>> ELSE <<>>)
               \o IdsNaming(Tail(listing), collection_id, families)

\* the promotions a batch replaces: each one deleted, then created
RECURSIVE Replaced(_)
Replaced(batch) ==
    IF Len(batch) < 2 THEN <<>>
    ELSE (IF /\ batch[1].op = "delete" /\ batch[2].op = "create"
             /\ batch[1].promo_id = batch[2].promo_id
          THEN <<batch[1].promo_id>> ELSE <<"?">>)
           \o Replaced(Tail(Tail(batch)))

\* steps of a collections/update handler
CollectionCommits ==
    /\ run.caller = "handle_collection_update"
    /\ run.phase = "commit" /\ run'.phase = "done"

CollectionReturns ==
    /\ run'.caller = "handle_collection_update"
    /\ run.phase # "commit" /\ run.phase # "done" /\ run'.phase = "done"
    /\ run'.found /\ run'.exc = NoException

\* what collections/update does with the rules of the given families that
\* name the changed collection
CollectionRebuilds(families) ==
    /\ "handle_collection_update" \in {run.caller, run'.caller} =>
         IF CollectionCommits
         THEN /\ run.batch # <<>>
              /\ Len(run.batch) = 2 * Len(Replaced(run.batch))
              /\ Replaced(run.batch) =
                   IdsNaming(run.listing, run.collection, families)
              /\ promo_api' = Append(promo_api, run.batch)
         ELSE promo_api' = promo_api
    /\ CollectionReturns =>
         IdsNaming(run'.listing, run'.collection, families) = <<>>

\* C26 as stated: collections/update rebuilds exactly the listed rules
\* whose entitled or prerequisite collection ids contain the changed
\* collection, commits at most one batch and only when a rule was rebuilt,
\* and commits nothing when the build of an affected rule raises
C26_RebuildsAffected ==
    [][CollectionRebuilds({"e", "b", NoFamily})]_vars

\* C26, amended: the rules rebuilt are those that name the changed
\* collection and map to a promotion family; an affected rule that is
\* unclassifiable is skipped
C26_RebuildsClassifiableAffected ==
    [][CollectionRebuilds({"e", "b"})]_vars

\* one batch replaced the basket rule and the item rule and passed over
\* the shipping rule listed between them
C26_Witness ==
    /\ run.caller = "handle_collection_update" /\ run.phase = "done"
    /\ Len(run.listing) = 3 /\ run.listing[2].id = "r4"
    /\ Replaced(run.batch) = <<"r2", "r1">>
    /\ promo_api = <<run.batch>>

====
